---------------------------- MODULE Spec2Model ----------------------------
(***************************************************************************)
(* Model of aws-cost-sankey (cmd/aws-cost-sankey/main.go): the pipeline    *)
(* that loads the configuration, builds the cost graph `results` either    *)
(* from the Cost Explorer API (fetchData / prepareResults) or from a text  *)
(* dump (readData), and writes it as text (generateText) or as a Sankey    *)
(* chart (generateChart).                                                  *)
(*                                                                         *)
(* Strings are TLA+ strings, handled character by character.  A float64    *)
(* amount is modelled by the integer number of thousandths it stands for   *)
(* (Unit thousandths per currency unit); the binary rounding of            *)
(* strconv.ParseFloat(s, 32) and of the "%.2f" verb is computed bit by     *)
(* bit so that both conversions behave as in the program.                  *)
(***************************************************************************)
EXTENDS Integers, Sequences, FiniteSets, Bags, TLC

(***************************************************************************)
(* Bounds of the model.                                                    *)
(***************************************************************************)
MaxRecords == 2      \* groups returned by the API over a whole run
MaxBuckets == 2      \* time buckets (ResultsByTime) of one API response
MaxLines   == 2      \* lines of the replay file

(***************************************************************************)
(* Number representation.                                                  *)
(***************************************************************************)
Unit == 1000         \* thousandths per currency unit

Abs(n) == IF n < 0 THEN -n ELSE n

RECURSIVE Pow(_, _)
Pow(b, n) == IF n = 0 THEN 1 ELSE b * Pow(b, n - 1)

(***************************************************************************)
(* Characters and strings.                                                 *)
(***************************************************************************)
Char(s, i) == SubSeq(s, i, i)

Digits == "0123456789"

IsDigit(c) == \E d \in 1..10 : Char(Digits, d) = c

DigitVal(c) == (CHOOSE d \in 1..10 : Char(Digits, d) = c) - 1

\* unicode.IsSpace restricted to the characters the model's inputs use
IsSpace(c) == c \in {" ", "\t", "\r", "\n"}

\* strings.Split(s, sep) for a one-character separator
RECURSIVE SplitFrom(_, _, _, _)
SplitFrom(s, sep, i, cur) ==
    IF i > Len(s) THEN <<cur>>
    ELSE IF Char(s, i) = sep THEN <<cur>> \o SplitFrom(s, sep, i + 1, "")
    ELSE SplitFrom(s, sep, i + 1, cur \o Char(s, i))

Split(s, sep) == SplitFrom(s, sep, 1, "")

\* strings.Fields(s): the maximal runs of non-space characters
RECURSIVE FieldsFrom(_, _, _)
FieldsFrom(s, i, cur) ==
    IF i > Len(s) THEN (IF cur = "" THEN <<>> ELSE <<cur>>)
    ELSE IF IsSpace(Char(s, i))
         THEN (IF cur = "" THEN <<>> ELSE <<cur>>) \o FieldsFrom(s, i + 1, "")
         ELSE FieldsFrom(s, i + 1, cur \o Char(s, i))

Fields(s) == FieldsFrom(s, 1, "")

\* strings.Trim(s, cutset): drop leading and trailing characters of cutset
RECURSIVE TrimLeft(_, _)
TrimLeft(s, cutset) ==
    IF s # "" /\ Char(s, 1) \in cutset THEN TrimLeft(Tail(s), cutset) ELSE s

RECURSIVE TrimRight(_, _)
TrimRight(s, cutset) ==
    IF s # "" /\ Char(s, Len(s)) \in cutset
    THEN TrimRight(SubSeq(s, 1, Len(s) - 1), cutset) ELSE s

Trim(s, cutset) == TrimRight(TrimLeft(s, cutset), cutset)

\* strings.Join(parts, sep)
RECURSIVE Join(_, _)
Join(parts, sep) ==
    IF parts = <<>> THEN ""
    ELSE IF Len(parts) = 1 THEN parts[1]
    ELSE parts[1] \o sep \o Join(Tail(parts), sep)

(***************************************************************************)
(* strconv.ParseFloat.  The decimal grammar [+-]digits[.digits] is parsed  *)
(* into sign, mantissa and number of fraction digits: the number is        *)
(* mant / 10^frac.  Anything else is a syntax error (the exponent, hex,    *)
(* "inf" and "nan" forms that ParseFloat also accepts do not occur in the  *)
(* inputs of the model).                                                   *)
(***************************************************************************)
RECURSIVE DigitsVal(_)
DigitsVal(s) ==
    IF s = "" THEN 0
    ELSE 10 * DigitsVal(SubSeq(s, 1, Len(s) - 1)) + DigitVal(Char(s, Len(s)))

AllDigits(s) == \A i \in 1..Len(s) : IsDigit(Char(s, i))

ParseDecimal(s) ==
    LET signed == s # "" /\ Char(s, 1) \in {"+", "-"}
        neg    == s # "" /\ Char(s, 1) = "-"
        body   == IF signed THEN Tail(s) ELSE s
        dots   == {i \in 1..Len(body) : Char(body, i) = "."}
        dot    == IF dots = {} THEN Len(body) + 1
                  ELSE CHOOSE i \in dots : \A j \in dots : i <= j
        ip     == SubSeq(body, 1, dot - 1)
        fp     == SubSeq(body, dot + 1, Len(body))
    IN  IF Cardinality(dots) <= 1 /\ AllDigits(ip) /\ AllDigits(fp)
           /\ Len(ip) + Len(fp) > 0
        THEN [ok |-> TRUE, neg |-> neg, mant |-> DigitsVal(ip \o fp),
              frac |-> Len(fp)]
        ELSE [ok |-> FALSE, neg |-> FALSE, mant |-> 0, frac |-> 0]

(***************************************************************************)
(* Binary rounding.  NormBits(m, r, d, e, p) extends the mantissa m of     *)
(* the number (m + r/d) * 2^e bit by bit until it has p significant bits;  *)
(* it returns the mantissa, the remainder r (out of d) and the exponent.   *)
(***************************************************************************)
RECURSIVE BitLen(_)
BitLen(n) == IF n = 0 THEN 0 ELSE 1 + BitLen(n \div 2)

RECURSIVE NormBits(_, _, _, _, _)
NormBits(m, r, d, e, p) ==
    IF m >= Pow(2, p - 1) THEN [m |-> m, r |-> r, e |-> e]
    ELSE LET bit == IF 2 * r >= d THEN 1 ELSE 0
         IN  NormBits(2 * m + bit, 2 * r - bit * d, d, e - 1, p)

\* the float32 nearest to mant / 10^frac (round half to even), as m * 2^e
Float32(mant, frac) ==
    LET d  == Pow(10, frac)
        q  == mant \div d
        r  == mant % d
        nb == BitLen(q)
    IN  IF mant = 0 THEN [m |-> 0, e |-> 0]
        ELSE IF nb > 24
        THEN LET sh   == nb - 24
                 t    == Pow(2, sh)
                 m0   == q \div t
                 rem  == q % t
                 half == t \div 2
                 up   == \/ rem > half
                         \/ rem = half /\ r > 0
                         \/ rem = half /\ r = 0 /\ m0 % 2 = 1
                 m1   == IF up THEN m0 + 1 ELSE m0
             IN  IF m1 = Pow(2, 24) THEN [m |-> Pow(2, 23), e |-> sh + 1]
                 ELSE [m |-> m1, e |-> sh]
        ELSE LET n  == NormBits(q, r, d, 0, 24)
                 up == \/ 2 * n.r > d
                       \/ 2 * n.r = d /\ n.m % 2 = 1
                 m1 == IF up THEN n.m + 1 ELSE n.m
             IN  IF m1 = Pow(2, 24) THEN [m |-> Pow(2, 23), e |-> n.e + 1]
                 ELSE [m |-> m1, e |-> n.e]

\* strconv.ParseFloat(s, 32): value as [neg, m, e] standing for +-m * 2^e
ParseFloat32(s) ==
    LET p == ParseDecimal(s)
        f == Float32(p.mant, p.frac)
    IN  [ok |-> p.ok, neg |-> p.neg, m |-> f.m, e |-> f.e]

\* math.Round: nearest integer, halves away from zero; result in whole units
MathRound(f) ==
    LET mag == IF f.e >= 0 THEN f.m * Pow(2, f.e)
               ELSE IF f.e <= -25 THEN 0
               ELSE (f.m + Pow(2, -f.e - 1)) \div Pow(2, -f.e)
    IN  IF f.neg THEN -mag ELSE mag

\* strconv.ParseFloat(s, 64): value in thousandths.  The inputs of the model
\* carry at most three fraction digits, which float64 holds to within half a
\* unit in the 53rd bit; further digits are rounded to the nearest thousandth.
ParseFloat64(s) ==
    LET p   == ParseDecimal(s)
        mag == IF p.frac <= 3 THEN p.mant * Pow(10, 3 - p.frac)
               ELSE (p.mant + Pow(10, p.frac - 3) \div 2) \div Pow(10, p.frac - 3)
    IN  [ok |-> p.ok, val |-> IF p.neg THEN -mag ELSE mag]

(***************************************************************************)
(* fmt.Sprintf("%.2f", x) for the float64 nearest to a / 1000.  The third  *)
(* fraction digit decides the rounding; when it is 5 the decimal is a tie  *)
(* and the direction is that of the float64's binary rounding error        *)
(* (F64Err: 1 above, -1 below, 0 exact, then half to even).                *)
(***************************************************************************)
RECURSIVE F64Tail(_, _, _, _)
F64Tail(r, started, k, last) ==
    IF k = 0 \/ r = 0 THEN [r |-> r, last |-> last]
    ELSE LET bit == IF 2 * r >= Unit THEN 1 ELSE 0
             on  == started \/ bit = 1
         IN  F64Tail(2 * r - bit * Unit, on, IF on THEN k - 1 ELSE k, bit)

F64Err(mag) ==
    LET q == mag \div Unit
        r == mag % Unit
        n == F64Tail(r, q > 0, 53 - BitLen(q), q % 2)
    IN  IF n.r = 0 THEN 0
        ELSE IF 2 * n.r > Unit THEN 1
        ELSE IF 2 * n.r < Unit THEN -1
        ELSE IF n.last = 1 THEN 1 ELSE -1

RECURSIVE IntStr(_)
IntStr(n) ==
    IF n < 10 THEN Char(Digits, n + 1)
    ELSE IntStr(n \div 10) \o Char(Digits, (n % 10) + 1)

FormatF2(a) ==
    LET mag  == Abs(a)
        h    == mag \div 10
        d    == mag % 10
        err  == F64Err(mag)
        up   == \/ d > 5
                \/ d = 5 /\ err > 0
                \/ d = 5 /\ err = 0 /\ h % 2 = 1
        hh   == IF up THEN h + 1 ELSE h
        cents == hh % 100
    IN  (IF a < 0 THEN "-" ELSE "") \o IntStr(hh \div 100) \o "."
        \o Char(Digits, (cents \div 10) + 1) \o Char(Digits, (cents % 10) + 1)

(***************************************************************************)
(* The cost graph: var results map[string]map[string]float64.              *)
(***************************************************************************)
EmptyMap == [x \in {} |-> 0]

Get(g, parent, child) ==
    IF parent \in DOMAIN g /\ child \in DOMAIN g[parent]
    THEN g[parent][child] ELSE 0

\* results[parent][child] = v, creating the inner map when it is missing
Put(g, parent, child, v) ==
    LET inner == IF parent \in DOMAIN g THEN g[parent] ELSE EmptyMap
        inner2 == [x \in DOMAIN inner \cup {child} |->
                      IF x = child THEN v ELSE inner[x]]
    IN  [x \in DOMAIN g \cup {parent} |-> IF x = parent THEN inner2 ELSE g[x]]

\* results[parent][child] += v
Add(g, parent, child, v) == Put(g, parent, child, Get(g, parent, child) + v)

\* the (parent, child) pairs of the graph
Edges(g) == UNION {{<<p, c>> : c \in DOMAIN g[p]} : p \in DOMAIN g}

(***************************************************************************)
(* Inputs of a run.                                                        *)
(***************************************************************************)
Marker == "environment$"

Formats == {"text", "text+ai", "chart", "pdf"}

InputFiles == {"", "dump.txt"}

AccountLists ==
    { <<[Name |-> "account1", Key |-> "key1"]>>,
      <<[Name |-> "account1", Key |-> "key1"],
        [Name |-> "account2", Key |-> "key2"]>>,
      <<[Name |-> "prod", Key |-> "key3"]>> }

Thresholds == {100 * Unit}

\* what yaml.Unmarshal leaves in globalConfig; a file without the fields
\* leaves the zero values
ZeroConfig == [Accounts |-> <<>>, Threshold |-> 0]

Configs == [Accounts : AccountLists, Threshold : Thresholds] \cup {ZeroConfig}

\* groups of a GetCostAndUsage response: Keys = <<tag, service>>, and the
\* AmortizedCost amount string
Groups ==
    { [Keys |-> <<"environment$prod", "EC2">>, Amount |-> "150.40"],
      [Keys |-> <<"environment$prod", "EC2">>, Amount |-> "49.60"],
      [Keys |-> <<"environment$", "S3">>, Amount |-> "100"],
      [Keys |-> <<"environment$prod", "S3">>, Amount |-> "2.4999999"],
      [Keys |-> <<"environment$my env", "EC2">>, Amount |-> "99.4"],
      [Keys |-> <<"environment$prod", "EC2">>, Amount |-> "abc"] }

ReplayLines ==
    { "all [200.00] account1",
      "prod [100.00] EC2",
      "prod [99.99] EC2",
      "dev [99.99] Amazon  S3",
      "dev [5.005] db",
      "acct1 [notanumber] svc",
      "prod [1.00]",
      "" }

SeqsUpTo(S, n) == UNION {[1..k -> S] : k \in 0..n}

RECURSIVE Cat(_)
Cat(ss) == IF ss = <<>> THEN "" ELSE Head(ss) \o "\n" \o Cat(Tail(ss))

\* contents of the replay file: every line ends with a newline
ReplayFiles == {Cat(ls) : ls \in SeqsUpTo(ReplayLines, MaxLines)}

RECURSIVE SumSeq(_)
SumSeq(ns) == IF ns = <<>> THEN 0 ELSE Head(ns) + SumSeq(Tail(ns))

\* API responses with at most n groups in all: ResultsByTime as a sequence
\* of buckets, each a sequence of groups
Shapes(n) == {sh \in SeqsUpTo(0..n, MaxBuckets) : SumSeq(sh) <= n}

RECURSIVE Chop(_, _)
Chop(flat, sh) ==
    IF sh = <<>> THEN <<>>
    ELSE <<SubSeq(flat, 1, Head(sh))>>
         \o Chop(SubSeq(flat, Head(sh) + 1, Len(flat)), Tail(sh))

Responses(n) ==
    UNION {{Chop(flat, sh) : flat \in [1..SumSeq(sh) -> Groups]} : sh \in Shapes(n)}

\* the responses of at most n groups, tabulated
ResponsesUpTo == [n \in 0..MaxRecords |-> Responses(n)]

(***************************************************************************)
(* State.                                                                  *)
(***************************************************************************)
VARIABLES
    pc,            \* position of main
    format,        \* flag -f
    inputFile,     \* flag -i
    globalConfig,  \* var globalConfig Config
    results,       \* var results
    env,           \* AWS_ACCESS_KEY_ID of the process environment
    acctIdx,       \* index of the account loop of main
    result,        \* ResultsByTime of the response being aggregated
    bucketIdx,     \* loop indexes of prepareResults
    groupIdx,
    processed,     \* the groups aggregated so far, with their account, the
                   \* amount added and the access key the environment held
    fetched,       \* the groups of each response of GetCostAndUsage so far,
                   \* with the access key the environment held at the call
    lines,         \* readData: the lines of the input file
    lineIdx,       \* readData: index of the next line
    consumed,      \* readData: the lines stored in the graph so far
    sankeyNode,    \* generateChart: node list
    sankeyLink,    \* generateChart: link list
    outFile        \* the output file

vars == <<pc, format, inputFile, globalConfig, results, env, acctIdx, result,
          bucketIdx, groupIdx, processed, fetched, lines, lineIdx,
          consumed, sankeyNode, sankeyLink, outFile>>

\* the output file: whether it exists, whether it was written to the end, the
\* number of lines it holds and, for a complete text file, the bag of them
NoFile == [exists |-> FALSE, complete |-> FALSE, count |-> 0,
           lines |-> EmptyBag]

Init ==
    /\ pc = "loadConfig"
    /\ format \in Formats
    /\ inputFile \in InputFiles
    /\ globalConfig = [Accounts |-> <<>>, Threshold |-> 0]
    /\ results = EmptyMap
    /\ env = ""
    /\ acctIdx = 1
    /\ result = <<>>
    /\ bucketIdx = 1
    /\ groupIdx = 1
    /\ processed = <<>>
    /\ fetched = <<>>
    /\ lines = <<>>
    /\ lineIdx = 1
    /\ consumed = <<>>
    /\ sankeyNode = EmptyBag
    /\ sankeyLink = EmptyBag
    /\ outFile = NoFile

(***************************************************************************)
(* main: loading the configuration.                                        *)
(***************************************************************************)
\* where main goes once account i - 1 is done (loop of lines 76-79)
AfterAccount(cfg, i) == IF i <= Len(cfg.Accounts) THEN "setEnvVar" ELSE "output"

LoadConfig ==
    /\ pc = "loadConfig"
    /\ \/ /\ pc' = "aborted"              \* os.ReadFile or yaml.Unmarshal fails
          /\ UNCHANGED globalConfig
       \/ \E cfg \in Configs :
             /\ globalConfig' = cfg
             /\ pc' = IF inputFile # "" THEN "readData"
                      ELSE AfterAccount(cfg, 1)
    /\ UNCHANGED <<format, inputFile, results, env, acctIdx, result, bucketIdx,
                   groupIdx, processed, fetched, lines, lineIdx, consumed, sankeyNode,
                   sankeyLink, outFile>>

(***************************************************************************)
(* readData: the replay path.                                              *)
(***************************************************************************)
\* ParseLine that passes over the lines it cannot parse
ParseLineLenient(line) ==
    LET parts == Fields(line)
        none  == [parent |-> "", child |-> "", cost |-> 0]
        cost  == ParseFloat64(Trim(parts[2], {"[", "]"}))
    IN  IF line = "" \/ Len(parts) < 3 \/ ~cost.ok THEN [kind |-> "skip"] @@ none
        ELSE [kind |-> "edge", parent |-> parts[1],
              child |-> Join(SubSeq(parts, 3, Len(parts)), " "),
              cost |-> cost.val]

\* one iteration of the loop over the lines: what the line turns into
ParseLine(line) ==
    LET parts == Fields(line)
        none  == [parent |-> "", child |-> "", cost |-> 0]
    IN  IF line = "" THEN [kind |-> "skip"] @@ none
        ELSE IF Len(parts) < 3 THEN [kind |-> "invalid"] @@ none
        ELSE LET cost == ParseFloat64(Trim(parts[2], {"[", "]"}))
             IN  IF ~cost.ok THEN [kind |-> "badcost"] @@ none
                 ELSE [kind |-> "edge", parent |-> parts[1],
                       child |-> Join(SubSeq(parts, 3, Len(parts)), " "),
                       cost |-> cost.val]

\* Store that adds to the edge
StoreAdding(g, parent, child, cost) == Add(g, parent, child, cost)

\* results[parent][child] = cost
Store(g, parent, child, cost) == Put(g, parent, child, cost)

\* the loop of lines 124-144 over all the lines, from the graph g: the
\* graph it leaves, or ok = FALSE when a line is fatal
RECURSIVE Replay(_, _)
Replay(ls, g) ==
    IF ls = <<>> THEN [ok |-> TRUE, g |-> g]
    ELSE LET l == ParseLine(Head(ls))
         IN  IF l.kind = "skip" THEN Replay(Tail(ls), g)
             ELSE IF l.kind = "edge"
             THEN Replay(Tail(ls), Store(g, l.parent, l.child, l.cost))
             ELSE [ok |-> FALSE, g |-> g]

ReadData ==
    /\ pc = "readData"
    /\ \/ /\ pc' = "aborted"              \* os.ReadFile fails
          /\ UNCHANGED lines
       \/ \E data \in ReplayFiles :
             /\ lines' = Split(data, "\n")
             /\ pc' = "readLine"
    /\ UNCHANGED <<format, inputFile, globalConfig, results, env, acctIdx,
                   result, bucketIdx, groupIdx, processed, fetched, lineIdx, consumed,
                   sankeyNode, sankeyLink, outFile>>

ReadLine ==
    /\ pc = "readLine"
    /\ LET l == ParseLine(lines[lineIdx])
           next == IF lineIdx = Len(lines) THEN "output" ELSE "readLine"
       IN  \/ /\ l.kind = "skip"
              /\ pc' = next
              /\ lineIdx' = lineIdx + 1
              /\ UNCHANGED <<results, consumed>>
           \/ /\ l.kind \in {"invalid", "badcost"}
              /\ pc' = "aborted"
              /\ UNCHANGED <<results, consumed, lineIdx>>
           \/ /\ l.kind = "edge"
              /\ results' = Store(results, l.parent, l.child, l.cost)
              /\ consumed' = Append(consumed, lines[lineIdx])
              /\ pc' = next
              /\ lineIdx' = lineIdx + 1
    /\ UNCHANGED <<format, inputFile, globalConfig, env, acctIdx, result,
                   bucketIdx, groupIdx, processed, fetched, lines, sankeyNode,
                   sankeyLink, outFile>>

(***************************************************************************)
(* The live path: setEnvVar, fetchData, prepareResults.                    *)
(***************************************************************************)
\* SetEnvVar that installs the key of the first account every time
SetEnvVarFirst ==
    /\ pc = "setEnvVar"
    /\ env' = globalConfig.Accounts[1].Key
    /\ pc' = "fetchData"
    /\ UNCHANGED <<format, inputFile, globalConfig, results, acctIdx, result,
                   bucketIdx, groupIdx, processed, fetched, lines, lineIdx,
                   consumed, sankeyNode, sankeyLink, outFile>>

\* os.Setenv of the credentials (they hold no NUL byte, so it succeeds)
SetEnvVar ==
    /\ pc = "setEnvVar"
    /\ env' = globalConfig.Accounts[acctIdx].Key
    /\ pc' = "fetchData"
    /\ UNCHANGED <<format, inputFile, globalConfig, results, acctIdx, result,
                   bucketIdx, groupIdx, processed, fetched, lines, lineIdx, consumed,
                   sankeyNode, sankeyLink, outFile>>

\* the first bucket from b on that holds a group, 0 when there is none
RECURSIVE FirstBucket(_, _)
FirstBucket(r, b) ==
    IF b > Len(r) THEN 0
    ELSE IF Len(r[b]) > 0 THEN b
    ELSE FirstBucket(r, b + 1)

\* the groups of a response, bucket after bucket: the order in which the
\* loops of prepareResults meet them
RECURSIVE Flat(_)
Flat(r) == IF r = <<>> THEN <<>> ELSE Head(r) \o Flat(Tail(r))

FetchData ==
    /\ pc = "fetchData"
    /\ \/ /\ pc' = "aborted"      \* LoadDefaultConfig or GetCostAndUsage fails
          /\ UNCHANGED <<result, fetched, bucketIdx, groupIdx, acctIdx>>
       \/ \E r \in ResponsesUpTo[MaxRecords - Len(processed)] :
             /\ fetched' = Append(fetched, [creds |-> env, groups |-> Flat(r)])
             /\ groupIdx' = 1
             /\ IF FirstBucket(r, 1) = 0
                THEN /\ result' = <<>>     \* prepareResults meets no group
                     /\ bucketIdx' = 1     \* and fetchData returns
                     /\ acctIdx' = acctIdx + 1
                     /\ pc' = AfterAccount(globalConfig, acctIdx + 1)
                ELSE /\ result' = r
                     /\ bucketIdx' = FirstBucket(r, 1)
                     /\ acctIdx' = acctIdx
                     /\ pc' = "prepareResults"
    /\ UNCHANGED <<format, inputFile, globalConfig, results, env, processed,
                   lines, lineIdx, consumed, sankeyNode, sankeyLink, outFile>>

\* Environment with the length test off by one: the bare marker is stripped
EnvironmentGeq(accountName, environment) ==
    IF Len(environment) >= Len(Marker)
    THEN SubSeq(environment, Len(Marker) + 1, Len(environment))
    ELSE accountName \o "-unknown"

\* "Prettify cluster name", lines 197-202
Environment(accountName, environment) ==
    IF Len(environment) > Len(Marker)
    THEN SubSeq(environment, Len(Marker) + 1, Len(environment))
    ELSE accountName \o "-unknown"

\* Amount that takes an amount it cannot parse for zero
AmountLenient(amount) ==
    LET f == ParseFloat32(amount)
    IN  [ok |-> TRUE, val |-> IF f.ok THEN MathRound(f) * Unit ELSE 0]

\* lines 205-207: the parsed and rounded amount, in thousandths
Amount(amount) ==
    LET f == ParseFloat32(amount)
    IN  [ok |-> f.ok, val |-> MathRound(f) * Unit]

\* Aggregate without the third +=
AggregateTwoTiers(g, accountName, environment, service, amountFloat64) ==
    Add(Add(g, "all", accountName, amountFloat64),
        accountName, environment, amountFloat64)

\* Aggregate that assigns the edge from "all" instead of adding to it
AggregateAllAssigned(g, accountName, environment, service, amountFloat64) ==
    LET g1 == Put(g, "all", accountName, amountFloat64)
        g2 == Add(g1, accountName, environment, amountFloat64)
    IN  Add(g2, environment, service, amountFloat64)

\* Aggregate that assigns the edge from the account to the environment
AggregateEnvAssigned(g, accountName, environment, service, amountFloat64) ==
    LET g1 == Add(g, "all", accountName, amountFloat64)
        g2 == Put(g1, accountName, environment, amountFloat64)
    IN  Add(g2, environment, service, amountFloat64)

\* lines 212-228: the three += of one group
Aggregate(g, accountName, environment, service, amountFloat64) ==
    LET g1 == Add(g, "all", accountName, amountFloat64)
        g2 == Add(g1, accountName, environment, amountFloat64)
    IN  Add(g2, environment, service, amountFloat64)

\* Amount of the amount strings of the model, tabulated
AmountOf == [amount \in {g.Amount : g \in Groups} |-> Amount(amount)]

PrepareRecord ==
    /\ pc = "prepareResults"
    /\ LET accountName == globalConfig.Accounts[acctIdx].Name
           group       == result[bucketIdx][groupIdx]
           environment == Environment(accountName, group.Keys[1])
           service     == group.Keys[2]
           amount      == AmountOf[group.Amount]
           more        == groupIdx < Len(result[bucketIdx])
           nextBucket  == FirstBucket(result, bucketIdx + 1)
       IN  IF ~amount.ok
           THEN /\ pc' = "aborted"
                /\ UNCHANGED <<results, processed, acctIdx, bucketIdx, groupIdx,
                               result>>
           ELSE /\ results' = Aggregate(results, accountName, environment,
                                        service, amount.val)
                /\ processed' = Append(processed,
                                       [account |-> accountName, group |-> group,
                                        amountFloat64 |-> amount.val,
                                        creds |-> env])
                /\ IF more
                   THEN /\ groupIdx' = groupIdx + 1
                        /\ UNCHANGED <<bucketIdx, acctIdx, pc, result>>
                   ELSE IF nextBucket # 0
                   THEN /\ groupIdx' = 1
                        /\ bucketIdx' = nextBucket
                        /\ UNCHANGED <<acctIdx, pc, result>>
                   ELSE /\ groupIdx' = 1       \* fetchData returns: the
                        /\ bucketIdx' = 1      \* response is dropped
                        /\ result' = <<>>
                        /\ acctIdx' = acctIdx + 1
                        /\ pc' = AfterAccount(globalConfig, acctIdx + 1)
    /\ UNCHANGED <<format, inputFile, globalConfig, env, fetched, lines,
                   lineIdx, consumed, sankeyNode, sankeyLink, outFile>>

(***************************************************************************)
(* generateText.                                                           *)
(***************************************************************************)
\* TextLine without the brackets around the amount
TextLineBare(parent, cost, child) ==
    parent \o " " \o FormatF2(cost) \o " " \o child

\* fmt.Sprintf("%s [%.2f] %s\n", parent, cost, child), without the newline
TextLine(parent, cost, child) ==
    parent \o " [" \o FormatF2(cost) \o "] " \o child

\* the line of an edge
LineOf(g, e) == TextLine(e[1], g[e[1]][e[2]], e[2])

\* lines 242-249: one WriteString per edge.  The file is held as the bag of
\* its lines, their order being the unspecified iteration order of the maps.
Text(g) ==
    LET ls == {LineOf(g, e) : e \in Edges(g)}
    IN  [l \in ls |-> Cardinality({e \in Edges(g) : LineOf(g, e) = l})]

GenerateText ==
    /\ pc = "output"
    /\ format \in {"text", "text+ai"}
    /\ \/ /\ pc' = "aborted"                       \* os.Create fails
          /\ UNCHANGED outFile
       \/ /\ outFile' = [exists |-> TRUE, complete |-> TRUE,
                         count |-> Cardinality(Edges(results)),
                         lines |-> Text(results)]
          /\ pc' = IF format = "text+ai" THEN "analyze" ELSE "done"
       \/ \E k \in 1..Cardinality(Edges(results)) :  \* the k-th WriteString
             \* fails: the file is left with k - 1 lines, of which only the
             \* number is kept
             /\ outFile' = [exists |-> TRUE, complete |-> FALSE,
                            count |-> k - 1, lines |-> EmptyBag]
             /\ pc' = "aborted"
    /\ UNCHANGED <<format, inputFile, globalConfig, results, env, acctIdx,
                   result, bucketIdx, groupIdx, processed, fetched, lines, lineIdx,
                   consumed, sankeyNode, sankeyLink>>

\* Analyze that writes the text again when the exchange fails
AnalyzeRetrying ==
    /\ pc = "analyze"
    /\ pc' \in {"done", "output"}
    /\ UNCHANGED <<format, inputFile, globalConfig, results, env, acctIdx,
                   result, bucketIdx, groupIdx, processed, fetched, lines,
                   lineIdx, consumed, sankeyNode, sankeyLink, outFile>>

\* analyze: every failure of the file read or of the HTTP exchange is fatal
Analyze ==
    /\ pc = "analyze"
    /\ pc' \in {"done", "aborted"}
    /\ UNCHANGED <<format, inputFile, globalConfig, results, env, acctIdx,
                   result, bucketIdx, groupIdx, processed, fetched, lines, lineIdx,
                   consumed, sankeyNode, sankeyLink, outFile>>

(***************************************************************************)
(* generateChart.                                                          *)
(***************************************************************************)
\* float32(cost): the link value, as [neg, m, e] standing for +-m * 2^e
Value(cost) ==
    LET f == Float32(Abs(cost), 3)
    IN  [neg |-> cost < 0, m |-> f.m, e |-> f.e]

\* Keep with a strict comparison
KeepAbove(cost, threshold) == cost > threshold

\* line 261: the test that keeps an edge
Keep(cost, threshold) == cost >= threshold

\* lines 258-265: one link per kept edge.  The slice is held as the bag of
\* its elements, their order being the unspecified iteration order of the maps.
Links(g, threshold) ==
    SetToBag({[Source |-> e[1], Target |-> e[2], Value |-> Value(g[e[1]][e[2]])]
              : e \in {x \in Edges(g) : Keep(g[x[1]][x[2]], threshold)}})

hasNode(name, nodes) == \E i \in 1..Len(nodes) : nodes[i].Name = name

\* AddNode without the hasNode test
AddNodeAlways(nodeName, nodes) == Append(nodes, [Name |-> nodeName])

\* one "if !hasNode(...) append" of lines 271-277
AddNode(nodeName, nodes) ==
    IF ~hasNode(nodeName, nodes) THEN Append(nodes, [Name |-> nodeName])
    ELSE nodes

\* the elements of a bag, one after the other
RECURSIVE Enumerate(_)
Enumerate(bag) ==
    IF bag = EmptyBag THEN <<>>
    ELSE LET x == CHOOSE y \in BagToSet(bag) : TRUE
         IN  <<x>> \o Enumerate(bag (-) SetToBag({x}))

SeqToBag(seq) ==
    [x \in {seq[i] : i \in 1..Len(seq)} |->
        Cardinality({i \in 1..Len(seq) : seq[i] = x})]

\* lines 267-278: the loop over the links that collects the nodes
RECURSIVE NodesOf(_, _)
NodesOf(links, nodes) ==
    IF links = <<>> THEN nodes
    ELSE NodesOf(Tail(links),
                 AddNode(Head(links).Target, AddNode(Head(links).Source, nodes)))

\* the node slice, as a bag like the link slice: hasNode makes the bag the
\* same for every order in which the loop meets the links
Nodes(link) == SeqToBag(NodesOf(Enumerate(link), <<>>))

\* the graph without the edges that the threshold drops
Pruned(g, threshold) ==
    [p \in {q \in DOMAIN g : \E c \in DOMAIN g[q] : Keep(g[q][c], threshold)} |->
        [c \in {d \in DOMAIN g[p] : Keep(g[p][d], threshold)} |-> g[p][c]]]

\* GenerateChart that deletes the dropped edges from the graph
GenerateChartPruning ==
    /\ pc = "output"
    /\ format = "chart"
    /\ sankeyLink' = Links(results, globalConfig.Threshold)
    /\ sankeyNode' = Nodes(Links(results, globalConfig.Threshold))
    /\ results' = Pruned(results, globalConfig.Threshold)
    /\ \/ /\ pc' = "aborted"
          /\ UNCHANGED outFile
       \/ /\ pc' = "done"
          /\ \E written \in BOOLEAN :
                outFile' = [exists |-> TRUE, complete |-> written,
                            count |-> 0, lines |-> EmptyBag]
    /\ UNCHANGED <<format, inputFile, globalConfig, env, acctIdx,
                   result, bucketIdx, groupIdx, processed, fetched, lines, lineIdx,
                   consumed>>

GenerateChart ==
    /\ pc = "output"
    /\ format = "chart"
    /\ sankeyLink' = Links(results, globalConfig.Threshold)
    /\ sankeyNode' = Nodes(Links(results, globalConfig.Threshold))
    /\ \/ /\ pc' = "aborted"                       \* os.Create fails
          /\ UNCHANGED outFile
       \/ /\ pc' = "done"         \* the error of page.Render is not looked at
          /\ \E written \in BOOLEAN :
                outFile' = [exists |-> TRUE, complete |-> written,
                            count |-> 0, lines |-> EmptyBag]
    /\ UNCHANGED <<format, inputFile, globalConfig, results, env, acctIdx,
                   result, bucketIdx, groupIdx, processed, fetched, lines, lineIdx,
                   consumed>>

\* lines 93-95
UnknownFormat ==
    /\ pc = "output"
    /\ format \notin {"text", "text+ai", "chart"}
    /\ pc' = "aborted"
    /\ UNCHANGED <<format, inputFile, globalConfig, results, env, acctIdx,
                   result, bucketIdx, groupIdx, processed, fetched, lines, lineIdx,
                   consumed, sankeyNode, sankeyLink, outFile>>

Next ==
    \/ LoadConfig
    \/ ReadData
    \/ ReadLine
    \/ SetEnvVar
    \/ FetchData
    \/ PrepareRecord
    \/ GenerateText
    \/ Analyze
    \/ GenerateChart
    \/ UnknownFormat

Spec == Init /\ [][Next]_vars

(***************************************************************************)
(* The iteration order of the maps.  Both emitters walk the graph with     *)
(* "for parent, children := range results { for child, cost := range       *)
(* children", an order the language leaves open.  RangeSpec applies the    *)
(* two loops to a graph in every order the nested range can take.          *)
(***************************************************************************)
MaxEdges == 3        \* edges of a graph of RangeSpec

RangeLines ==
    {"all [200.00] account1", "all [99.00] account2",
     "account1 [200.00] prod", "account2 [99.00] prod",
     "prod [299.00] EC2", "prod [100.00] EC2", "prod [5.005] Amazon S3"}

\* the graphs readData leaves from at most MaxEdges lines
Graphs == {Replay(ls, EmptyMap).g : ls \in SeqsUpTo(RangeLines, MaxEdges)}

Perms(S) ==
    {f \in [1..Cardinality(S) -> S] : \A i, j \in DOMAIN f : f[i] = f[j] => i = j}

\* the orders in which the nested range meets the edges: the edges of one
\* parent come one after the other
RangeOrders(g) ==
    {o \in Perms(Edges(g)) :
        \A i, j, k \in DOMAIN o :
            i < j /\ j < k /\ o[i][1] = o[k][1] => o[j][1] = o[i][1]}

\* lines 242-249 in the order o: the lines written, one after the other
TextLines(g, o) == [i \in DOMAIN o |-> LineOf(g, o[i])]

\* lines 258-265 in the order o: the link slice
RECURSIVE LinksIn(_, _, _)
LinksIn(g, o, threshold) ==
    IF o = <<>> THEN <<>>
    ELSE LET e == Head(o)
             cost == g[e[1]][e[2]]
         IN  (IF Keep(cost, threshold)
              THEN <<[Source |-> e[1], Target |-> e[2], Value |-> Value(cost)]>>
              ELSE <<>>) \o LinksIn(g, Tail(o), threshold)

RangeInit ==
    /\ pc = "output"
    /\ format \in {"text", "chart"}
    /\ inputFile = "dump.txt"
    /\ globalConfig \in [Accounts : {<<>>}, Threshold : {0} \cup Thresholds]
    /\ results \in Graphs
    /\ env = ""
    /\ acctIdx = 1
    /\ result = <<>>
    /\ bucketIdx = 1
    /\ groupIdx = 1
    /\ processed = <<>>
    /\ fetched = <<>>
    /\ lines = <<>>
    /\ lineIdx = 1
    /\ consumed = <<>>
    /\ sankeyNode = EmptyBag
    /\ sankeyLink = EmptyBag
    /\ outFile = NoFile

\* generateText with the order of the range made explicit
GenerateTextInOrder ==
    /\ pc = "output"
    /\ format = "text"
    /\ \E o \in RangeOrders(results) :
          outFile' = [exists |-> TRUE, complete |-> TRUE, count |-> Len(o),
                      lines |-> SeqToBag(TextLines(results, o))]
    /\ pc' = "done"
    /\ UNCHANGED <<format, inputFile, globalConfig, results, env, acctIdx,
                   result, bucketIdx, groupIdx, processed, fetched, lines,
                   lineIdx, consumed, sankeyNode, sankeyLink>>

\* generateChart with the order of the range made explicit
GenerateChartInOrder ==
    /\ pc = "output"
    /\ format = "chart"
    /\ \E o \in RangeOrders(results) :
          LET link == LinksIn(results, o, globalConfig.Threshold)
          IN  /\ sankeyLink' = SeqToBag(link)
              /\ sankeyNode' = SeqToBag(NodesOf(link, <<>>))
    /\ outFile' = [exists |-> TRUE, complete |-> TRUE, count |-> 0,
                   lines |-> EmptyBag]
    /\ pc' = "done"
    /\ UNCHANGED <<format, inputFile, globalConfig, results, env, acctIdx,
                   result, bucketIdx, groupIdx, processed, fetched, lines,
                   lineIdx, consumed>>

RangeNext ==
    \/ GenerateTextInOrder
    \/ GenerateChartInOrder

RangeSpec == RangeInit /\ [][RangeNext]_vars

TypeOK ==
    /\ pc \in {"loadConfig", "readData", "readLine", "setEnvVar", "fetchData",
               "prepareResults", "output", "analyze", "done", "aborted"}
    /\ format \in Formats
    /\ outFile.exists \in BOOLEAN

(***************************************************************************)
(* Properties of the live path.                                            *)
(***************************************************************************)
\* the amount string as an exact decimal, rounded to the nearest whole unit
\* (halves away from zero), in thousandths
NearestWhole(amount) ==
    LET p == ParseDecimal(amount)
        d == Pow(10, p.frac)
        w == (2 * p.mant + d) \div (2 * d)
    IN  (IF p.neg THEN -w ELSE w) * Unit

\* the environment label the specification gives a tag
Label(account, tag) ==
    IF Len(tag) > Len(Marker) /\ SubSeq(tag, 1, Len(Marker)) = Marker
    THEN SubSeq(tag, Len(Marker) + 1, Len(tag))
    ELSE account \o "-unknown"

\* the three (parent, child) keys a group of an account goes to
KeysOf(account, group) ==
    LET l == Label(account, group.Keys[1])
    IN  <<(<<"all", account>>), (<<account, l>>), (<<l, group.Keys[2]>>)>>

\* how many of the three keys are the pair e
Times(account, group, e) ==
    Cardinality({i \in 1..3 : KeysOf(account, group)[i] = e})

\* the sum over the groups of recs that go to e of their rounded amounts
RECURSIVE Total(_, _)
Total(recs, e) ==
    IF recs = <<>> THEN 0
    ELSE Times(Head(recs).account, Head(recs).group, e)
             * NearestWhole(Head(recs).group.Amount)
         + Total(Tail(recs), e)

AllKeys(recs) ==
    UNION {{KeysOf(recs[i].account, recs[i].group)[k] : k \in 1..3}
           : i \in 1..Len(recs)}

\* C1: on the live path every edge of the graph is the sum, over the groups
\* aggregated so far that go to it, of the group's amount rounded to the
\* nearest whole currency unit.
C1_SumOfNearestWhole ==
    inputFile = "" =>
        \A e \in Edges(results) \cup AllKeys(processed) :
            Get(results, e[1], e[2]) = Total(processed, e)

\* C2: a step of prepareResults on a group either finds the amount malformed,
\* changes no edge and aborts the run, or adds the amount to each of the
\* three edges all -> account, account -> environment and environment ->
\* category and to no other edge.
C2_ThreeOrNone ==
    [][pc = "prepareResults" =>
        LET account == globalConfig.Accounts[acctIdx].Name
            group   == result[bucketIdx][groupIdx]
            amount  == Amount(group.Amount)
        IN  IF ~ParseDecimal(group.Amount).ok
            THEN results' = results /\ pc' = "aborted"
            ELSE /\ pc' # "aborted"
                 /\ \A e \in Edges(results) \cup Edges(results')
                              \cup AllKeys(<<[account |-> account, group |-> group]>>) :
                       Get(results', e[1], e[2]) - Get(results, e[1], e[2])
                           = Times(account, group, e) * amount.val]_vars

\* a group was aggregated and the next one, malformed, has aborted the run
C2_Witness ==
    /\ pc = "aborted"
    /\ Len(processed) >= 1
    /\ result # <<>>
    /\ ~ParseDecimal(result[bucketIdx][groupIdx].Amount).ok
    /\ Cardinality(Edges(results)) = 3

\* C3: the edges of the live graph are exactly all -> account,
\* account -> label and label -> category of the aggregated groups, where the
\* label of a tag longer than the marker is the tag without the marker and
\* the label of the bare marker is "<account>-unknown"; the raw tag is no key.
C3_NormalizedKeys ==
    inputFile = "" =>
        /\ Edges(results) = AllKeys(processed)
        /\ \A i \in 1..Len(processed) :
              LET a   == processed[i].account
                  tag == processed[i].group.Keys[1]
              IN  /\ tag = "environment$prod" =>
                        /\ Get(results, a, "prod") # 0
                        /\ "prod" \in DOMAIN results
                  /\ tag = Marker =>
                        /\ Get(results, a, a \o "-unknown") # 0
                        /\ (a \o "-unknown") \in DOMAIN results
                  /\ tag \notin DOMAIN results
                  /\ tag \notin DOMAIN results[a]

\* a group with the bare marker and a group tagged "environment$prod" were
\* both aggregated
C3_Witness ==
    /\ \E i \in 1..Len(processed) : processed[i].group.Keys[1] = Marker
    /\ \E i \in 1..Len(processed) : processed[i].group.Keys[1] = "environment$prod"
    /\ "account1-unknown" \in DOMAIN results
    /\ "prod" \in DOMAIN results

(***************************************************************************)
(* Properties of the chart projection.                                     *)
(***************************************************************************)
ChartStep == pc = "output" /\ format = "chart"

LinkPairs(link) == {<<l.Source, l.Target>> : l \in BagToSet(link)}

\* C4: generateChart puts an edge in the link list if and only if its amount
\* is greater than or equal to the threshold, once, with a link for nothing
\* else: an edge at the threshold is kept, one a hundredth below is dropped.
C4_ThresholdGeq ==
    [][ChartStep =>
        /\ \A e \in Edges(results) :
              (e \in LinkPairs(sankeyLink'))
                  <=> results[e[1]][e[2]] >= globalConfig.Threshold
        /\ LinkPairs(sankeyLink') \subseteq Edges(results)
        /\ \A l \in BagToSet(sankeyLink') : CopiesIn(l, sankeyLink') = 1]_vars

\* the chart was made of a graph with an edge exactly at the threshold, which
\* is a link, and an edge a hundredth below it, which is none
C4_Witness ==
    /\ pc = "done"
    /\ format = "chart"
    /\ \E e \in Edges(results) :
          /\ results[e[1]][e[2]] = globalConfig.Threshold
          /\ e \in LinkPairs(sankeyLink)
    /\ \E e \in Edges(results) :
          /\ results[e[1]][e[2]] = globalConfig.Threshold - 10
          /\ e \notin LinkPairs(sankeyLink)

Ends(link) == {l.Source : l \in BagToSet(link)} \cup {l.Target : l \in BagToSet(link)}

\* the labels of the graph that are an end of an edge the threshold keeps
KeptLabels(g, threshold) ==
    {e[1] : e \in {x \in Edges(g) : g[x[1]][x[2]] >= threshold}}
    \cup {e[2] : e \in {x \in Edges(g) : g[x[1]][x[2]] >= threshold}}

\* C5: the node list generateChart builds holds exactly the labels that are
\* the source or the target of a link, each once; a label that is only in
\* edges below the threshold is not a node.
C5_NodesExact ==
    [][ChartStep =>
        /\ \A n \in BagToSet(sankeyNode') :
              /\ CopiesIn(n, sankeyNode') = 1
              /\ n.Name \in Ends(sankeyLink')
        /\ \A x \in Ends(sankeyLink') : BagIn([Name |-> x], sankeyNode')
        /\ {n.Name : n \in BagToSet(sankeyNode')}
              = KeptLabels(results, globalConfig.Threshold)]_vars

\* the chart was made of a graph where a label is the target of one link and
\* the source of another, and where another label is only in dropped edges
C5_Witness ==
    /\ pc = "done"
    /\ format = "chart"
    /\ \E x \in Ends(sankeyLink) :
          /\ \E l \in BagToSet(sankeyLink) : l.Source = x
          /\ \E l \in BagToSet(sankeyLink) : l.Target = x
          /\ CopiesIn([Name |-> x], sankeyNode) = 1
    /\ \E e \in Edges(results) :
          /\ e[1] \notin Ends(sankeyLink)
          /\ ~BagIn([Name |-> e[1]], sankeyNode)

\* C10: generateChart leaves the graph as it is, and the text that
\* generateText writes to the end holds the line of every edge of the graph,
\* whatever the threshold.
C10_NeverPruned ==
    [][/\ ChartStep => results' = results
       /\ (pc = "output" /\ format \in {"text", "text+ai"} /\ outFile'.complete) =>
             /\ results' = results
             /\ \A e \in Edges(results) : BagIn(LineOf(results, e), outFile'.lines)
             /\ BagCardinality(outFile'.lines) = Cardinality(Edges(results))]_vars

\* the chart was made and the graph still holds an edge below the threshold
C10_Witness ==
    /\ pc = "done"
    /\ format = "chart"
    /\ \E e \in Edges(results) :
          /\ results[e[1]][e[2]] < globalConfig.Threshold
          /\ e \notin LinkPairs(sankeyLink)
    /\ sankeyLink # EmptyBag

(***************************************************************************)
(* Properties of the text projection and of the replay path.               *)
(***************************************************************************)
\* C6: the text of the graph, read back by readData into an empty graph,
\* gives a graph with the same text (the same bag of lines).
C6_RoundTrip ==
    pc = "output" =>
        LET back == Replay(Split(Cat(Enumerate(Text(results))), "\n"), EmptyMap)
        IN  back.ok /\ Text(back.g) = Text(results)

\* C7: a run that aborts has left no output file, and a run that ends has
\* left a file written to the end.
C7_AllOrNothing ==
    /\ pc = "aborted" => ~outFile.exists
    /\ pc = "done" => outFile.exists /\ outFile.complete

\* a non-empty line with fewer than three fields, or whose second field
\* without its brackets is no number
Malformed(line) ==
    /\ line # ""
    /\ \/ Len(Fields(line)) < 3
       \/ ~ParseDecimal(Trim(Fields(line)[2], {"[", "]"})).ok

\* C8: when a line of the replay file is malformed the run never gets past
\* that line: it makes no output file and does not reach the output stage.
C8_MalformedIsFatal ==
    \A i \in 1..Len(lines) :
        Malformed(lines[i]) =>
            /\ pc \in {"readLine", "aborted"}
            /\ lineIdx <= i
            /\ ~outFile.exists
            /\ sankeyLink = EmptyBag

\* the run was aborted on a malformed line that came after a line which was
\* stored, and there is no output file
C8_Witness ==
    /\ pc = "aborted"
    /\ Len(consumed) >= 1
    /\ lineIdx <= Len(lines)
    /\ Malformed(lines[lineIdx])
    /\ ~outFile.exists

\* the parent, the child and the amount, in thousandths, of a stored line
PairOf(line) ==
    <<Fields(line)[1], Join(SubSeq(Fields(line), 3, Len(Fields(line))), " ")>>

Verbatim(line) ==
    LET p == ParseDecimal(Trim(Fields(line)[2], {"[", "]"}))
    IN  (IF p.neg THEN -1 ELSE 1) * p.mant * Pow(10, 3 - p.frac)

\* C9: on the replay path every edge holds the amount, as written, of the
\* last line stored for its pair, and there is no other edge.
C9_LastLineWins ==
    inputFile # "" =>
        /\ Edges(results) = {PairOf(consumed[i]) : i \in 1..Len(consumed)}
        /\ \A i \in 1..Len(consumed) :
              (\A j \in (i + 1)..Len(consumed) : PairOf(consumed[j]) # PairOf(consumed[i]))
                  => Get(results, PairOf(consumed[i])[1], PairOf(consumed[i])[2])
                         = Verbatim(consumed[i])

\* two lines with the same pair and different amounts were stored
C9_Witness ==
    /\ pc = "output"
    /\ \E i, j \in 1..Len(consumed) :
          /\ i < j
          /\ PairOf(consumed[i]) = PairOf(consumed[j])
          /\ Verbatim(consumed[i]) # Verbatim(consumed[j])
          /\ Get(results, PairOf(consumed[j])[1], PairOf(consumed[j])[2])
                 = Verbatim(consumed[j])


(***************************************************************************)
(* Properties of the emitters under every iteration order (RangeSpec).     *)
(***************************************************************************)
\* s is an amount with exactly two fraction digits: an optional sign, one
\* digit or more, a point and two digits
TwoFractionDigits(s) ==
    LET t == IF Len(s) > 0 /\ Char(s, 1) = "-" THEN SubSeq(s, 2, Len(s)) ELSE s
    IN  /\ Len(t) >= 4
        /\ Char(t, Len(t) - 2) = "."
        /\ \A i \in (1..Len(t)) \ {Len(t) - 2} : IsDigit(Char(t, i))

\* l is "<parent> [<amount>] <child>" for the edge (parent, child) of cost c:
\* the amount has two fraction digits and is c to the nearest hundredth
IsLineOf(l, parent, c, child) ==
    LET head == parent \o " ["
        tail == "] " \o child
        n    == Len(l) - Len(head) - Len(tail)
        a    == SubSeq(l, Len(head) + 1, Len(head) + n)
    IN  /\ n >= 4
        /\ SubSeq(l, 1, Len(head)) = head
        /\ SubSeq(l, Len(l) - Len(tail) + 1, Len(l)) = tail
        /\ TwoFractionDigits(a)
        /\ Abs(ParseFloat64(a).val - c) <= 5

\* C11: whatever the order in which the maps are walked, generateText writes
\* exactly one line per edge of the graph, of the form
\* "<parent> [<amount>] <child>" with two fraction digits: the bag of the
\* lines written is a function of the graph alone.
C11_OneLinePerEdge ==
    [][pc = "output" /\ format = "text" =>
        LET written == outFile'.lines
        IN  /\ BagCardinality(written) = Cardinality(Edges(results))
            /\ \A e \in Edges(results) :
                  \E l \in BagToSet(written) :
                      /\ IsLineOf(l, e[1], results[e[1]][e[2]], e[2])
                      /\ CopiesIn(l, written)
                           = Cardinality({x \in Edges(results) :
                                 IsLineOf(l, x[1], results[x[1]][x[2]], x[2])})
       ]_vars

\* a text file of three lines was written from a graph of three edges, two
\* of them under one parent
C11_Witness ==
    /\ pc = "done"
    /\ format = "text"
    /\ outFile.complete
    /\ BagCardinality(outFile.lines) = 3
    /\ Cardinality(Edges(results)) = 3
    /\ \E p \in DOMAIN results : Cardinality(DOMAIN results[p]) = 2

(***************************************************************************)
(* Properties of main as a whole.                                          *)
(***************************************************************************)
\* the stage of the pipeline a position of main belongs to: configuration,
\* building the graph (by replay or account after account), writing the
\* output, the analysis, the end of the run
Stage(p) ==
    CASE p = "loadConfig" -> 1
      [] p \in {"readData", "readLine", "setEnvVar", "fetchData",
                "prepareResults"} -> 2
      [] p = "output" -> 3
      [] p = "analyze" -> 4
      [] p \in {"done", "aborted"} -> 5

\* the source of the graph has nothing left to deliver
SourceDone ==
    IF inputFile # "" THEN lineIdx = Len(lines) + 1
    ELSE /\ acctIdx = Len(globalConfig.Accounts) + 1
         /\ Len(fetched) = Len(globalConfig.Accounts)
         /\ bucketIdx = 1 /\ groupIdx = 1

\* C12: the pipeline is linear.  When an emitter starts, every line of the
\* replay file or every account has been dealt with; from then on the graph
\* is never written; and main never goes back to an earlier stage nor runs
\* the output stage or the analysis twice.
C12_Linear ==
    /\ [](pc \in {"output", "analyze"} => SourceDone)
    /\ [][/\ Stage(pc') >= Stage(pc)
          /\ Stage(pc) >= 3 => results' = results /\ Stage(pc') > Stage(pc)
          /\ Stage(pc) # 2 => Stage(pc') # Stage(pc)]_vars

\* a live run over two accounts went through every stage to the end
C12_Witness ==
    /\ pc = "done"
    /\ format = "text+ai"
    /\ inputFile = ""
    /\ Len(fetched) = 2
    /\ Len(processed) = 2
    /\ outFile.complete

\* the groups of all the responses received so far, in the order received
RECURSIVE FetchedGroups(_)
FetchedGroups(fs) ==
    IF fs = <<>> THEN <<>> ELSE Head(fs).groups \o FetchedGroups(Tail(fs))

C14_ConfigErrorIsFatal ==
    globalConfig = ZeroConfig /\ pc # "loadConfig" =>
        /\ pc = "aborted"
        /\ fetched = <<>>
        /\ lines = <<>>
        /\ ~outFile.exists

\* the thresholds at which the two views of a graph are compared: none, the
\* configured ones and the amount of every edge
ViewThresholds(g) ==
    {0} \cup Thresholds \cup {g[e[1]][e[2]] : e \in Edges(g)}

\* C15: the chart of a graph built on the live path is the chart of the
\* graph that readData builds from its text: when the live graph is complete
\* its text can be read back, and at every threshold the two graphs give the
\* same links (source, target, value) and the same nodes.
C15_SameView ==
    inputFile = "" /\ pc = "output" =>
        LET back == Replay(Split(Cat(Enumerate(Text(results))), "\n"), EmptyMap)
        IN  /\ back.ok
            /\ \A th \in ViewThresholds(results) :
                  /\ Links(back.g, th) = Links(results, th)
                  /\ BagToSet(Nodes(Links(back.g, th)))
                       = BagToSet(Nodes(Links(results, th)))

\* the sum of the amounts of the groups of recs aggregated while the
\* environment held the access key
RECURSIVE SumUnder(_, _)
SumUnder(recs, key) ==
    IF recs = <<>> THEN 0
    ELSE (IF Head(recs).creds = key THEN Head(recs).amountFloat64 ELSE 0)
         + SumUnder(Tail(recs), key)

\* C16: the accounts are dealt with one at a time, in the order of the
\* configuration.  The i-th response was fetched under the key of the i-th
\* account, which is the key installed when fetchData runs; when setEnvVar
\* runs for an account, the responses of all the accounts before it, and
\* only those, were fetched and all their groups aggregated; every group was
\* aggregated under the name of the account whose key was installed, and
\* the edge all -> name is the sum of the amounts fetched under that key;
\* with a replay file nothing is installed and nothing fetched.
C16_OneAccountAtATime ==
    LET accounts == globalConfig.Accounts
    IN  /\ inputFile # "" =>
              /\ env = "" /\ fetched = <<>> /\ processed = <<>>
              /\ pc \notin {"setEnvVar", "fetchData", "prepareResults"}
        /\ Len(fetched) <= Len(accounts)
        /\ \A i \in 1..Len(fetched) : fetched[i].creds = accounts[i].Key
        /\ pc = "fetchData" =>
              /\ env = accounts[acctIdx].Key
              /\ Len(fetched) = acctIdx - 1
        /\ pc \in {"setEnvVar", "fetchData"} =>
              /\ Len(fetched) = acctIdx - 1
              /\ [i \in 1..Len(processed) |-> processed[i].group]
                   = FetchedGroups(fetched)
        /\ pc = "prepareResults" => Len(fetched) = acctIdx
        /\ \A i \in 1..Len(processed) :
              \E k \in 1..Len(accounts) :
                  /\ accounts[k].Key = processed[i].creds
                  /\ accounts[k].Name = processed[i].account
        /\ inputFile = "" =>
              \A k \in 1..Len(accounts) :
                  Get(results, "all", accounts[k].Name)
                      = SumUnder(processed, accounts[k].Key)

\* the second account of the configuration is about to be fetched, after a
\* group of the first was aggregated; and later a group of each is in the
\* graph
C16_Witness ==
    /\ inputFile = ""
    /\ Len(globalConfig.Accounts) = 2
    /\ Len(fetched) = 2
    /\ Len(processed) = 2
    /\ processed[1].creds = "key1"
    /\ processed[2].creds = "key2"
    /\ Get(results, "all", "account2") > 0

\* the labels of the three lower tiers, from the groups aggregated
AccountNames == {processed[i].account : i \in 1..Len(processed)}

EnvLabels ==
    {Environment(processed[i].account, processed[i].group.Keys[1])
       : i \in 1..Len(processed)}

Categories == {processed[i].group.Keys[2] : i \in 1..Len(processed)}

TiersDisjoint ==
    LET tiers == <<{"all"}, AccountNames, EnvLabels, Categories>>
    IN  \A i, j \in 1..4 : i < j => tiers[i] \cap tiers[j] = {}

\* the sum of the amounts of the edges pairs of g
RECURSIVE SumOfPairs(_, _)
SumOfPairs(g, pairs) ==
    IF pairs = {} THEN 0
    ELSE LET e == CHOOSE x \in pairs : TRUE
         IN  Get(g, e[1], e[2]) + SumOfPairs(g, pairs \ {e})

Outflow(g, p) == SumOfPairs(g, {e \in Edges(g) : e[1] = p})

Inflow(g, c) == SumOfPairs(g, {e \in Edges(g) : e[2] = c})

Conserved ==
    /\ \A a \in AccountNames : Get(results, "all", a) = Outflow(results, a)
    /\ \A l \in EnvLabels :
          SumOfPairs(results, {e \in Edges(results) :
                                   e[1] \in AccountNames /\ e[2] = l})
              = Outflow(results, l)

\* C17: on the live path, when "all", the account names, the environment
\* labels and the categories are pairwise disjoint, every account receives
\* from "all" what it passes on to its environments, and every environment
\* receives from the accounts what it passes on to its categories.
C17_TierConservation ==
    inputFile = "" /\ TiersDisjoint => Conserved

\* two accounts have fed the same environment, with disjoint tiers
C17_Witness ==
    /\ inputFile = ""
    /\ TiersDisjoint
    /\ \E l \in EnvLabels :
          Cardinality({a \in AccountNames : <<a, l>> \in Edges(results)}) = 2
    /\ \E l \in EnvLabels : Outflow(results, l) > 0

\* the graph that aggregating the groups recs one after the other leaves
RECURSIVE Rebuilt(_, _)
Rebuilt(recs, g) ==
    IF recs = <<>> THEN g
    ELSE LET a == Head(recs).account
             r == Head(recs).group
         IN  Rebuilt(Tail(recs),
                     Aggregate(g, a, Environment(a, r.Keys[1]), r.Keys[2],
                               Head(recs).amountFloat64))

\* C18: the live graph does not depend on the order of the groups.  When the
\* accounts are done, aggregating the same groups (each with its account) in
\* any other order gives the graph the run has built.
C18_OrderIndependent ==
    inputFile = "" /\ pc = "output" =>
        \A p \in Perms(1..Len(processed)) :
            Rebuilt([i \in 1..Len(processed) |-> processed[p[i]]], EmptyMap)
                = results

\* two groups with different amounts have gone to the same three edges
C18_Witness ==
    /\ inputFile = ""
    /\ pc = "output"
    /\ \E i, j \in 1..Len(processed) :
          /\ i < j
          /\ processed[i].account = processed[j].account
          /\ processed[i].group.Keys = processed[j].group.Keys
          /\ processed[i].amountFloat64 # processed[j].amountFloat64
=============================================================================
